---- MODULE Spec2Model ----
(***************************************************************************)
(* Model of dice_roll_committer.py: the layered commit decision            *)
(* (get_commit_decision), the commit-message formatter, the two file       *)
(* writers and the orchestrator main() with its exit codes.                *)
(*                                                                         *)
(* Floats are modelled as records [k, v]: k = "fin" with v an integer in   *)
(* fixed-point units, k = "inf" with v the sign (1 or -1), or k = "nan".   *)
(* Units: probabilities and modifiers of the configuration are in 1/100,   *)
(* a product of three of them and a roll are in 1/1000000.                 *)
(***************************************************************************)
EXTENDS Integers, Sequences, FiniteSets, TLC

VARIABLES
    config,         \* class Config (static for one run)
    clock,          \* the environment's UTC clock
    pc,             \* position of main(): "start", "log", "gen", "write", "exited"
    frame,          \* locals of get_commit_decision at its return
    decision,       \* the CommitDecision returned to main
    random_calls,   \* number of calls of random.random()
    log_file,       \* lines of dice_roll_log.txt (opened in append mode)
    log_attempts,   \* number of calls of write_log_entry
    log_ok,         \* result of write_log_entry
    commit_message, \* messages built by generate_commit_message, in order
    msg_file,       \* content of commit_message.txt (<<>> while not written)
    msg_attempts,   \* number of calls of write_commit_message_file
    msg_ok,         \* result of write_commit_message_file
    exit_codes      \* codes passed to sys.exit, in order

vars == <<config, clock, pc, frame, decision, random_calls, log_file, log_attempts,
          log_ok, commit_message, msg_file, msg_attempts, msg_ok, exit_codes>>

----------------------------------------------------------------------------
(* Bounds of the model *)

\* the clock is followed for at most this many seconds after a run starts
MaxSecond == 1

----------------------------------------------------------------------------
(* Float arithmetic *)

F(n) == [k |-> "fin", v |-> n]
PosInf == [k |-> "inf", v |-> 1]
NegInf == [k |-> "inf", v |-> -1]
NaN == [k |-> "nan", v |-> 0]

\* 1.0 in units of 1/1000000
One == 1000000

FSign(a) == IF a.v > 0 THEN 1 ELSE IF a.v < 0 THEN -1 ELSE 0

\* a * b for Python floats (0 * inf is nan)
FMul(a, b) ==
    IF a.k = "nan" \/ b.k = "nan" THEN NaN
    ELSE IF a.k = "inf" \/ b.k = "inf"
         THEN IF FSign(a) * FSign(b) = 0 THEN NaN
              ELSE [k |-> "inf", v |-> FSign(a) * FSign(b)]
         ELSE F(a.v * b.v)

\* a < b for Python floats (every comparison with nan is false)
FLt(a, b) ==
    /\ a.k # "nan"
    /\ b.k # "nan"
    /\ IF a.k = "fin" /\ b.k = "fin" THEN a.v < b.v
       ELSE IF a.k = "inf" /\ b.k = "fin" THEN a.v < 0
       ELSE IF a.k = "fin" /\ b.k = "inf" THEN b.v > 0
       ELSE a.v < b.v

\* the builtins min(a, b) and max(a, b): the first argument is kept unless the
\* second compares strictly smaller (larger)
PyMin(a, b) == IF FLt(b, a) THEN b ELSE a
PyMax(a, b) == IF FLt(a, b) THEN b ELSE a

\* round-half-even division of an integer by 100
RoundDiv100(n) ==
    LET q == n \div 100
        r == n % 100
    IN  IF r < 50 THEN q
        ELSE IF r > 50 THEN q + 1
        ELSE IF q % 2 = 0 THEN q ELSE q + 1

\* f"{x:.4f}" (and "{x:.2%}") of a float in units of 1/1000000: the value in
\* units of 1/10000; inf and nan print as themselves
Fmt4(a) == IF a.k = "fin" THEN F(RoundDiv100(a.v)) ELSE a

\* f"{x:.4f}" of a configured probability (units of 1/100)
Fmt4Prob(a) == IF a.k = "fin" THEN F(a.v * 100) ELSE a

----------------------------------------------------------------------------
(* class Config *)

Hours == 0..23
Minutes == 0..59
Weekdays == 0..6
Months == 1..12

STANDARD_HOUR_PROBS == <<F(25), F(25), F(2), F(25)>>

\* The source builds this table with a dict comprehension in the class body,
\* where the name STANDARD_HOUR_PROBS is not visible to the comprehension
\* (CPython raises NameError while the class is being defined).  The table
\* modelled is the one the comprehension is written to build.
PROBABILITY_MATRIX == [hour \in Hours |-> STANDARD_HOUR_PROBS]

SEASONAL_MODIFIERS ==
    (1 :> F(110)) @@ (2 :> F(100)) @@ (3 :> F(100)) @@ (4 :> F(110)) @@
    (5 :> F(90)) @@ (6 :> F(80)) @@ (7 :> F(70)) @@ (8 :> F(80)) @@
    (9 :> F(110)) @@ (10 :> F(120)) @@ (11 :> F(125)) @@ (12 :> F(100))

\* the configuration as the source sets it
SourceConfig ==
    [GUARANTEE_COMMIT |-> FALSE,
     PROBABILITY_MATRIX |-> PROBABILITY_MATRIX,
     WEEKDAY_MODIFIER |-> F(100),
     WEEKEND_MODIFIER |-> F(50),
     SEASONAL_MODIFIERS |-> SEASONAL_MODIFIERS]

\* a table with per-quarter values that lacks the hours from 12 on
SparseMatrix == [hour \in 0..11 |-> <<F(10), F(40), F(2), F(100)>>]

\* a seasonal table that lacks most months and holds a negative modifier
SparseSeasonal == (1 :> F(110)) @@ (7 :> F(70)) @@ (10 :> F(-200))

\* edited configurations: the Config attributes are plain class attributes
\* that a deployment edits (GUARANTEE_COMMIT is documented as a switch)
OutOfRangeConfig ==
    [GUARANTEE_COMMIT |-> FALSE,
     PROBABILITY_MATRIX |-> SparseMatrix,
     WEEKDAY_MODIFIER |-> F(500),
     WEEKEND_MODIFIER |-> F(-100),
     SEASONAL_MODIFIERS |-> SparseSeasonal]

NonFiniteConfig ==
    [GUARANTEE_COMMIT |-> FALSE,
     PROBABILITY_MATRIX |-> SparseMatrix,
     WEEKDAY_MODIFIER |-> PosInf,
     WEEKEND_MODIFIER |-> NaN,
     SEASONAL_MODIFIERS |-> SparseSeasonal]

Configs ==
    {SourceConfig, OutOfRangeConfig, NonFiniteConfig,
     [SourceConfig EXCEPT !.GUARANTEE_COMMIT = TRUE],
     [OutOfRangeConfig EXCEPT !.GUARANTEE_COMMIT = TRUE]}

\* values of random.random(), a float in [0.0, 1.0)
Rolls == {0, 100000, 175000, 300000, 999999}

----------------------------------------------------------------------------
(* The clock *)

\* half a second, in microseconds: the step of the modelled clock
ClockStep == 500000

Clocks ==
    [month : Months, weekday : Weekdays, hour : Hours, minute : Minutes,
     second : {0}, microsecond : {0}]

\* the clock readings at which a modelled run of main() starts
RunClocks ==
    [month : {1, 7, 10}, weekday : {0, 5}, hour : {6, 10, 14}, minute : {20, 35},
     second : {0}, microsecond : {0}]

\* datetime.isoformat(): all fields of the reading
isoformat(t) == t

\* datetime.isoformat(timespec='seconds'): the microseconds are dropped
isoformat_seconds(t) == [t EXCEPT !.microsecond = 0]

----------------------------------------------------------------------------
(* get_commit_decision *)

\* dict.get(key, default)
DictGet(d, key, default) == IF key \in DOMAIN d THEN d[key] ELSE default

\* a variant that treats hour 0 as "no hour"
IsMultipleOf3_SkipsMidnight(current_hour) == current_hour # 0 /\ current_hour % 3 = 0

\* Override Path 2: current_hour % 3 == 0
IsMultipleOf3(current_hour) == current_hour % 3 = 0

\* a variant whose first bucket ends one minute early
QuarterIndex_OffByOne(current_minute) ==
    IF 0 <= current_minute /\ current_minute < 14 THEN 0
    ELSE IF 14 <= current_minute /\ current_minute <= 29 THEN 1
    ELSE IF 30 <= current_minute /\ current_minute <= 44 THEN 2
    ELSE 3

\* Layer 1: the quarter of the hour, 0-based
QuarterIndex(current_minute) ==
    IF 0 <= current_minute /\ current_minute <= 14 THEN 0
    ELSE IF 15 <= current_minute /\ current_minute <= 29 THEN 1
    ELSE IF 30 <= current_minute /\ current_minute <= 44 THEN 2
    ELSE 3

\* Layer 2: Saturday (5) or Sunday (6)
IsWeekend(current_weekday) == current_weekday >= 5

\* a variant that only clamps from below
Clamp_NoUpperBound(calculated_threshold) == PyMax(F(0), calculated_threshold)

\* max(0.0, min(1.0, calculated_threshold))
Clamp(calculated_threshold) == PyMax(F(0), PyMin(F(One), calculated_threshold))

\* a variant that compares with <=
RollSucceeds_Inclusive(roll, final_threshold) ==
    FLt(F(roll), final_threshold) \/ F(roll) = final_threshold

\* roll < final_threshold
RollSucceeds(roll, final_threshold) == FLt(F(roll), final_threshold)

\* a variant that tests the hour rule before the configuration switch
Path_HourRuleFirst(cfg, now_utc) ==
    IF IsMultipleOf3(now_utc.hour) THEN "multiple_of_3"
    ELSE IF cfg.GUARANTEE_COMMIT THEN "guaranteed"
    ELSE "probabilistic"

\* which of the three paths of get_commit_decision is taken
Path(cfg, now_utc) ==
    IF cfg.GUARANTEE_COMMIT THEN "guaranteed"
    ELSE IF IsMultipleOf3(now_utc.hour) THEN "multiple_of_3"
    ELSE "probabilistic"

\* the locals of the probabilistic path
ProbabilisticFrame(cfg, now_utc, roll) ==
    LET quarter_index == QuarterIndex(now_utc.minute)
        base_probability ==
            DictGet(cfg.PROBABILITY_MATRIX, now_utc.hour,
                    <<F(0), F(0), F(0), F(0)>>)[quarter_index + 1]
        is_weekend == IsWeekend(now_utc.weekday)
        weekday_modifier ==
            IF is_weekend THEN cfg.WEEKEND_MODIFIER ELSE cfg.WEEKDAY_MODIFIER
        seasonal_modifier == DictGet(cfg.SEASONAL_MODIFIERS, now_utc.month, F(100))
        calculated_threshold ==
            FMul(FMul(base_probability, weekday_modifier), seasonal_modifier)
    IN  [path |-> "probabilistic",
         now_utc |-> now_utc,
         quarter_index |-> quarter_index,
         base_probability |-> base_probability,
         is_weekend |-> is_weekend,
         weekday_modifier |-> weekday_modifier,
         seasonal_modifier |-> seasonal_modifier,
         calculated_threshold |-> calculated_threshold,
         final_threshold |-> Clamp(calculated_threshold),
         roll |-> roll]

\* the CommitDecision built on the probabilistic path
ProbabilisticDecision(f) ==
    LET success == RollSucceeds(f.roll, f.final_threshold)
    IN  [should_commit |-> success,
         reason |-> [text |-> IF success THEN "Success on" ELSE "Roll failed on",
                     day |-> IF f.is_weekend THEN "weekend" ELSE "weekday",
                     quarter |-> f.quarter_index + 1,
                     final_threshold |-> Fmt4(f.final_threshold)],
         details |-> [timestamp_utc |-> isoformat(f.now_utc),
                      is_weekend |-> f.is_weekend,
                      quarter_of_hour |-> f.quarter_index + 1,
                      base_probability |-> Fmt4Prob(f.base_probability),
                      weekday_modifier |-> f.weekday_modifier,
                      seasonal_modifier |-> f.seasonal_modifier,
                      final_threshold |-> Fmt4(f.final_threshold),
                      roll |-> Fmt4(F(f.roll)),
                      outcome |-> IF success THEN "success" ELSE "failure"]]

\* the CommitDecision built on an override path
OverrideDecision(path, now_utc) ==
    IF path = "guaranteed"
    THEN [should_commit |-> TRUE,
          reason |-> [text |-> "Commit is guaranteed by global configuration."],
          details |-> [mode |-> "guaranteed", timestamp |-> isoformat(now_utc)]]
    ELSE [should_commit |-> TRUE,
          reason |-> [text |-> "Guaranteed commit: Hour is a multiple of 3.",
                      hour |-> now_utc.hour],
          details |-> [mode |-> "multiple_of_3", hour_utc |-> now_utc.hour]]

----------------------------------------------------------------------------
(* main *)

NoFrame == [path |-> "none", now_utc |-> [month |-> 1, weekday |-> 0, hour |-> 0,
                                          minute |-> 0, second |-> 0, microsecond |-> 0]]
NoDecision == [should_commit |-> FALSE, reason |-> [text |-> ""], details |-> [mode |-> "none"]]

InitRun ==
    /\ config \in Configs
    /\ pc = "start"
    /\ frame = NoFrame
    /\ decision = NoDecision
    /\ random_calls = 0
    /\ log_file = <<>>
    /\ log_attempts = 0
    /\ log_ok = FALSE
    /\ commit_message = <<>>
    /\ msg_file = <<>>
    /\ msg_attempts = 0
    /\ msg_ok = FALSE
    /\ exit_codes = <<>>

Init == InitRun /\ clock \in RunClocks

\* the inputs of the decision over the whole calendar
InitEngine == InitRun /\ clock \in Clocks

\* the clock advances while main() runs
Tick ==
    /\ pc # "exited"
    /\ clock.second < MaxSecond
    /\ clock' = IF clock.microsecond + ClockStep >= 1000000
                THEN [clock EXCEPT !.second = @ + 1,
                                   !.microsecond = @ + ClockStep - 1000000]
                ELSE [clock EXCEPT !.microsecond = @ + ClockStep]
    /\ UNCHANGED <<config, pc, frame, decision, random_calls, log_file, log_attempts,
                   log_ok, commit_message, msg_file, msg_attempts, msg_ok, exit_codes>>

\* decision = get_commit_decision()
Decide ==
    /\ pc = "start"
    /\ LET now_utc == clock
           path == Path(config, now_utc)
       IN  IF path = "probabilistic"
           THEN \E roll \in Rolls :
                    /\ frame' = ProbabilisticFrame(config, now_utc, roll)
                    /\ decision' = ProbabilisticDecision(frame')
                    /\ random_calls' = random_calls + 1
           ELSE /\ frame' = [path |-> path, now_utc |-> now_utc]
                /\ decision' = OverrideDecision(path, now_utc)
                /\ UNCHANGED random_calls
    /\ pc' = "log"
    /\ UNCHANGED <<config, clock, log_file, log_attempts, log_ok, commit_message,
                   msg_file, msg_attempts, msg_ok, exit_codes>>

\* the line write_log_entry appends
LogLine(d, now) ==
    [timestamp |-> isoformat_seconds(now), should_commit |-> d.should_commit,
     reason |-> d.reason, details |-> d.details]

\* a variant in which a failed append is only fatal when a commit was decided
WriteLog_ExitTwoOnFailure ==
    /\ pc = "log"
    /\ log_attempts' = log_attempts + 1
    /\ \E ok \in BOOLEAN :
        /\ log_ok' = ok
        /\ log_file' = IF ok THEN Append(log_file, LogLine(decision, clock)) ELSE log_file
        /\ IF ~decision.should_commit
           THEN /\ exit_codes' = Append(exit_codes, 2)
                /\ pc' = "exited"
           ELSE IF ~ok
           THEN /\ exit_codes' = Append(exit_codes, 1)
                /\ pc' = "exited"
           ELSE /\ pc' = "gen"
                /\ UNCHANGED exit_codes
    /\ UNCHANGED <<config, clock, frame, decision, random_calls, commit_message,
                   msg_file, msg_attempts, msg_ok>>

\* a variant that ignores the result of write_log_entry
WriteLog_ContinueOnFailure ==
    /\ pc = "log"
    /\ log_attempts' = log_attempts + 1
    /\ \E ok \in BOOLEAN :
        /\ log_ok' = ok
        /\ log_file' = IF ok THEN Append(log_file, LogLine(decision, clock)) ELSE log_file
        /\ IF decision.should_commit
           THEN /\ pc' = "gen"
                /\ UNCHANGED exit_codes
           ELSE /\ exit_codes' = Append(exit_codes, IF ok THEN 2 ELSE 1)
                /\ pc' = "exited"
    /\ UNCHANGED <<config, clock, frame, decision, random_calls, commit_message,
                   msg_file, msg_attempts, msg_ok>>

\* if not write_log_entry(decision, log_filepath): sys.exit(1); the branch on
\* decision.should_commit that follows a successful append
WriteLog ==
    /\ pc = "log"
    /\ log_attempts' = log_attempts + 1
    /\ \E ok \in BOOLEAN :
        /\ log_ok' = ok
        /\ log_file' = IF ok THEN Append(log_file, LogLine(decision, clock)) ELSE log_file
        /\ IF ~ok
           THEN /\ exit_codes' = Append(exit_codes, 1)
                /\ pc' = "exited"
           ELSE IF decision.should_commit
           THEN /\ pc' = "gen"
                /\ UNCHANGED exit_codes
           ELSE /\ exit_codes' = Append(exit_codes, 2)
                /\ pc' = "exited"
    /\ UNCHANGED <<config, clock, frame, decision, random_calls, commit_message,
                   msg_file, msg_attempts, msg_ok>>

\* generate_commit_message(decision)
generate_commit_message(d, now) ==
    [header |-> "chore(automated):", timestamp |-> isoformat_seconds(now),
     reason |-> d.reason, details |-> d.details]

\* commit_message = generate_commit_message(decision)
GenerateMessage ==
    /\ pc = "gen"
    /\ commit_message' = Append(commit_message, generate_commit_message(decision, clock))
    /\ pc' = "write"
    /\ UNCHANGED <<config, clock, frame, decision, random_calls, log_file, log_attempts,
                   log_ok, msg_file, msg_attempts, msg_ok, exit_codes>>

\* if write_commit_message_file(commit_message, commit_msg_filepath): sys.exit(0)
\* else: sys.exit(1)
WriteMessage ==
    /\ pc = "write"
    /\ msg_attempts' = msg_attempts + 1
    /\ \E ok \in BOOLEAN :
        /\ msg_ok' = ok
        /\ msg_file' = IF ok THEN <<commit_message[Len(commit_message)]>> ELSE msg_file
        /\ exit_codes' = Append(exit_codes, IF ok THEN 0 ELSE 1)
    /\ pc' = "exited"
    /\ UNCHANGED <<config, clock, frame, decision, random_calls, log_file, log_attempts,
                   log_ok, commit_message>>

Step == Decide \/ WriteLog \/ GenerateMessage \/ WriteMessage

Next == Tick \/ Decide \/ WriteLog \/ GenerateMessage \/ WriteMessage

Spec == Init /\ [][Next]_vars

\* main() is straight-line code: each of its steps is eventually taken
FairSpec == Init /\ [][Next]_vars /\ WF_vars(Step)

\* one evaluation of get_commit_decision for each clock reading
NextEngine == Decide

SpecEngine == InitEngine /\ [][NextEngine]_vars

----------------------------------------------------------------------------
(* Properties *)

\* get_commit_decision has returned
Decided == pc # "start"

\* the mode recorded in the details of an override decision
ModeIs(d, mode) == "mode" \in DOMAIN d.details /\ d.details.mode = mode

\* C1: with GUARANTEE_COMMIT false, at every hour that is a multiple of 3 the
\* decision is should_commit = TRUE with details mode "multiple_of_3", for any
\* minute, weekday, month, configuration and value of the random source.
C1_MultipleOf3Override ==
    (Decided /\ ~config.GUARANTEE_COMMIT /\ frame.now_utc.hour \in {0, 3, 6, 9, 12, 15, 18, 21})
        => /\ decision.should_commit
           /\ ModeIs(decision, "multiple_of_3")

C1_Witness ==
    /\ Decided
    /\ config = NonFiniteConfig
    /\ frame.now_utc.hour = 0
    /\ frame.now_utc.minute = 35
    /\ frame.now_utc.weekday = 6
    /\ frame.now_utc.month = 10
    /\ decision.should_commit
    /\ ModeIs(decision, "multiple_of_3")

\* C2: with GUARANTEE_COMMIT true the decision is should_commit = TRUE with
\* details mode "guaranteed" at every timestamp (hours that are multiples of 3
\* included), and random.random() is not called.
C2_GuaranteeOverride ==
    (Decided /\ config.GUARANTEE_COMMIT)
        => /\ decision.should_commit
           /\ ModeIs(decision, "guaranteed")
           /\ random_calls = 0

C2_Witness ==
    /\ Decided
    /\ config.GUARANTEE_COMMIT
    /\ frame.now_utc.hour = 9
    /\ ModeIs(decision, "guaranteed")
    /\ random_calls = 0

\* C3: whenever the probabilistic path is taken, final_threshold is a number
\* in the closed interval [0.0, 1.0], whatever the configured probabilities
\* and modifiers are (negative, above 1, infinite or nan).
C3_ThresholdInUnitInterval ==
    frame.path = "probabilistic"
        => /\ frame.final_threshold.k = "fin"
           /\ 0 <= frame.final_threshold.v
           /\ frame.final_threshold.v <= 1000000

\* 0.40 * 5.0 * 1.1 = 2.2 is clamped to 1.0
C3_Witness ==
    /\ frame.path = "probabilistic"
    /\ config.WEEKDAY_MODIFIER = F(500)
    /\ frame.calculated_threshold = F(2200000)
    /\ frame.final_threshold = F(1000000)

\* some write that was attempted has failed
SomeWriteFailed ==
    \/ log_attempts > 0 /\ ~log_ok
    \/ msg_attempts > 0 /\ ~msg_ok

\* the exit code is the one the decision and the write outcomes determine
ExitCodeDetermined ==
    /\ Len(exit_codes) <= 1
    /\ (pc = "exited") <=> (Len(exit_codes) = 1)
    /\ pc = "exited" =>
        LET code == exit_codes[1]
        IN  /\ code \in {0, 1, 2}
            /\ (code = 0) <=> (decision.should_commit /\ log_ok /\ msg_attempts = 1 /\ msg_ok)
            /\ (code = 1) <=> SomeWriteFailed
            /\ (code = 2) <=> (~decision.should_commit /\ log_attempts = 1 /\ log_ok)

\* C4: every run of main ends with exactly one exit code in {0, 1, 2}: 0 iff a
\* commit was decided and both writes succeeded, 1 iff an attempted write
\* failed, 2 iff no commit was decided and the log append succeeded (a failed
\* append exits 1 also when no commit was decided).
C4_ExitCodes == [](ExitCodeDetermined) /\ <>(pc = "exited")

C4_Witness ==
    /\ pc = "exited"
    /\ ~decision.should_commit
    /\ log_attempts = 1
    /\ ~log_ok
    /\ exit_codes = <<1>>

\* C5: the log append is attempted exactly once per run, before any
\* commit-message write and whatever the decision; a commit message is built
\* and written only if should_commit holds and the append succeeded; a failed
\* append ends the run with no message built or written.
C5_LogFirstThenMessage ==
    /\ log_attempts <= 1
    /\ pc \in {"gen", "write", "exited"} => log_attempts = 1
    /\ Len(log_file) = (IF log_ok THEN 1 ELSE 0)
    /\ (commit_message # <<>> \/ msg_attempts > 0 \/ msg_file # <<>>)
           => (log_attempts = 1 /\ log_ok /\ decision.should_commit)
    /\ msg_attempts <= 1
    /\ (log_attempts = 1 /\ ~log_ok)
           => (pc = "exited" /\ commit_message = <<>> /\ msg_attempts = 0 /\ msg_file = <<>>)

C5_Witness ==
    /\ pc = "exited"
    /\ decision.should_commit
    /\ log_attempts = 1
    /\ ~log_ok
    /\ commit_message = <<>>
    /\ msg_attempts = 0

\* y is x clamped to [0.0, 1.0] (x in units of 1/1000000)
IsClampOf(x, y) ==
    /\ y.k = "fin"
    /\ 0 <= y.v /\ y.v <= 1000000
    /\ (x.k = "fin" /\ 0 <= x.v /\ x.v <= 1000000) => y = x
    /\ ((x.k = "fin" /\ x.v < 0) \/ x = NegInf) => y.v = 0
    /\ ((x.k = "fin" /\ x.v > 1000000) \/ x = PosInf) => y.v = 1000000

\* C6: on the probabilistic path should_commit holds iff roll < final_threshold
\* (strictly), final_threshold being the product of the base probability of
\* the hour and quarter, the weekend modifier on weekdays 5 and 6 and the
\* weekday modifier otherwise, and the seasonal modifier of the month (1.0 for
\* an unmapped month), clamped to [0, 1]; the outcome label is "success"
\* exactly when should_commit holds and "failure" otherwise.
C6_RollAgainstThreshold ==
    frame.path = "probabilistic" =>
        LET now == frame.now_utc
            base == IF now.hour \in DOMAIN config.PROBABILITY_MATRIX
                    THEN config.PROBABILITY_MATRIX[now.hour][(now.minute \div 15) + 1]
                    ELSE F(0)
            m == IF now.weekday \in {5, 6}
                 THEN config.WEEKEND_MODIFIER ELSE config.WEEKDAY_MODIFIER
            seasonal == IF now.month \in DOMAIN config.SEASONAL_MODIFIERS
                        THEN config.SEASONAL_MODIFIERS[now.month] ELSE F(100)
        IN  /\ ~config.GUARANTEE_COMMIT
            /\ now.hour % 3 # 0
            /\ IsClampOf(FMul(FMul(base, m), seasonal), frame.final_threshold)
            /\ decision.should_commit <=> (frame.roll < frame.final_threshold.v)
            /\ decision.details.outcome =
                   (IF decision.should_commit THEN "success" ELSE "failure")

\* base 0.25, weekday modifier 1.0, seasonal 0.7: the threshold is 0.175 and a
\* roll of exactly 0.175 does not commit
C6_Witness ==
    /\ frame.path = "probabilistic"
    /\ config = SourceConfig
    /\ frame.now_utc.hour = 14
    /\ frame.now_utc.minute = 20
    /\ frame.now_utc.weekday = 0
    /\ frame.now_utc.month = 7
    /\ frame.final_threshold = F(175000)
    /\ frame.roll = 175000
    /\ ~decision.should_commit
    /\ decision.details.outcome = "failure"

\* C7: when the probability table has no entry for the hour (and no override
\* fires) the base probability is 0.0, final_threshold is 0.0 and
\* should_commit is FALSE for every roll, whatever the modifiers are.
C7_MissingHourFailsClosed ==
    (frame.path = "probabilistic"
     /\ frame.now_utc.hour \notin DOMAIN config.PROBABILITY_MATRIX)
        => /\ frame.base_probability = F(0)
           /\ frame.final_threshold = F(0)
           /\ ~decision.should_commit

\* C8: every minute 0..59 maps to exactly one quarter index: 0..14 to 0,
\* 15..29 to 1, 30..44 to 2, 45..59 to 3, 15 minutes in each bucket, and the
\* details record that index plus one.
C8_QuarterPartition ==
    frame.path = "probabilistic" =>
        LET minute == frame.now_utc.minute
            q == decision.details.quarter_of_hour - 1
        IN  /\ q \in 0..3
            /\ q = frame.quarter_index
            /\ minute \in 0..14 => q = 0
            /\ minute \in 15..29 => q = 1
            /\ minute \in 30..44 => q = 2
            /\ minute \in 45..59 => q = 3
            /\ Cardinality({mm \in Minutes : QuarterIndex(mm) = q}) = 15

C8_Witness ==
    /\ frame.path = "probabilistic"
    /\ frame.now_utc.minute = 14
    /\ decision.details.quarter_of_hour = 1

\* C10: the timestamp in the commit message and in the log line is the clock
\* reading the decision was built from, also when the clock advances between
\* the steps of the run.
C10_SingleTimestamp ==
    /\ \A i \in 1..Len(commit_message) :
           commit_message[i].timestamp = isoformat_seconds(frame.now_utc)
    /\ \A i \in 1..Len(log_file) :
           log_file[i].timestamp = isoformat_seconds(frame.now_utc)

====
